---------------------------- MODULE Spec2Model ----------------------------
(***************************************************************************)
(* The two example notebooks of stablefused, each run top to bottom:       *)
(*   "t2i"     : the text-to-image notebook      (src/unnamed/part_000)    *)
(*   "inpaint" : examples/inpaint_diffusion.ipynb                          *)
(* A notebook is a sequence of code cells executed by one kernel.  The     *)
(* state is the kernel's namespace (the notebook's variables), the RNG     *)
(* states, the pipeline call in flight, and what was written and shown.    *)
(* One action per code cell; a cell that calls the pipeline hands over to  *)
(* the pipeline, which returns or raises in a step of its own.             *)
(*                                                                         *)
(* The pipeline classes and stablefused.utils are imported by the          *)
(* notebooks and are not among the source files: they are modelled from    *)
(* the specification's words.                                              *)
(*                                                                         *)
(* Abstractions: a prompt text is an opaque identity (a number); an image  *)
(* keeps its true height and width as numbers and its content at NumPixels *)
(* sampled positions.                                                      *)
(***************************************************************************)
EXTENDS Integers, Sequences, FiniteSets, TLC

\* ------------------------------------------------------------- bounds
\* longest prompt list tried (the notebooks' own lists have 4 prompts)
MaxPrompts == 4
\* sampled pixel positions of an image
NumPixels == 2
\* distinct states an unseeded RNG may start in
NumEntropy == 2
\* top-to-bottom runs of the notebook in one behaviour
MaxRuns == 2

\* ------------------------------------------------- program constants
T2ISeed == 1337
InpaintSeed == 42
T2ISteps == 20
InpaintSteps == 20
InpaintStartStep == 5
InpaintHeight == 512
InpaintWidth == 512
GridRows == 2
VideoFps == 5
\* guidance_scale=10.0 of both batched calls
GuidanceScale == 10

\* ------------------------------------------------------ plain values
Pixels == 1..NumPixels
\* grey levels of a black and of a white pixel
IsBlack(v) == v = 0
IsWhite(v) == v = 255

\* A keyword argument of a call: passed with a value, or left out.
Arg(v) == [passed |-> TRUE, v |-> v]
NotPassed == [passed |-> FALSE]

\* The Python value of the variable `prompt`: a str, or a list of str.
PyStr(t) == [kind |-> "str", texts |-> <<t>>]
PyList(l) == [kind |-> "list", texts |-> l]
\* len(prompt) of a list
PyLen(v) == Len(v.texts)

T2IModelId == "runwayml/stable-diffusion-v1-5"
InpaintModelId == "runwayml/stable-diffusion-inpainting"
\* the literal prompt / negative prompt strings; a prompt text is an identity
SinglePrompt == PyStr(0)
NegativePrompt == "cartoon, unrealistic, ..."
VideoPath == "text_to_image_diffusion.mp4"
ImageFilename == "mechanical-robot-base-image.png"
MaskFilename == "mask.png"

\* The prompt list written in the notebook's cell, for a list of n prompts:
\* n distinct texts, the i-th identified by i.
PromptList(n) == PyList([i \in 1..n |-> i])
PromptLists == {PromptList(n) : n \in 1..MaxPrompts}

\* ------------------------------------------------------ Python lists
\* [x] * n
ListTimes(x, n) == [i \in 1..n |-> x]

\* the division rounded up instead of down
FloorDiv2_RoundUp(n) == (n + 1) \div 2

\* len(prompt) // 2  (floor division of a non-negative int)
FloorDiv2(n) == n \div 2

\* num_images / 2 is true division: the float q + (half ? 0.5 : 0)
TrueDiv2(n) == [whole |-> n \div 2, half |-> (n % 2 = 1)]
\* int() in place of math.ceil: the fraction dropped
MathCeil_Truncate(f) == f.whole

\* math.ceil of such a float
MathCeil(f) == IF f.half THEN f.whole + 1 ELSE f.whole

\* --------------------------------------------------------- PIL, numpy
\* An image file on disk: absent, or mode, size (height, width), pixels.
NoFile == [exists |-> FALSE]
LPixelValues == {0, 255}
RGBPixelValues == {<<0, 0, 0>>, <<255, 255, 255>>}
Sizes == {<<512, 512>>, <<256, 512>>}
ImageFiles ==
  {NoFile}
  \cup {[exists |-> TRUE, mode |-> "L", size |-> s, px |-> f] :
          s \in Sizes, f \in [Pixels -> LPixelValues]}
  \cup {[exists |-> TRUE, mode |-> "RGB", size |-> s, px |-> f] :
          s \in Sizes, f \in [Pixels -> RGBPixelValues]}

\* ITU-R 601-2 luma transform of PIL's convert("L"), in its integer form
Luma(rgb) == (rgb[1] * 19595 + rgb[2] * 38470 + rgb[3] * 7471 + 32768) \div 65536

\* Image.convert("RGB")
ConvertRGB(img) ==
  IF img.mode = "RGB" THEN img
  ELSE [exists |-> TRUE, mode |-> "RGB", size |-> img.size,
        px |-> [p \in Pixels |-> <<img.px[p], img.px[p], img.px[p]>>]]

\* Image.convert("L")
ConvertL(img) ==
  IF img.mode = "L" THEN img
  ELSE [exists |-> TRUE, mode |-> "L", size |-> img.size,
        px |-> [p \in Pixels |-> Luma(img.px[p])]]

\* height and width taken in PIL's order (width, height)
NpArray_Transposed(img) ==
  [shape |-> IF img.mode = "RGB" THEN <<img.size[2], img.size[1], 3>>
             ELSE <<img.size[2], img.size[1]>>,
   data |-> img.px]

\* np.array(image): shape (H, W, 3) for RGB, (H, W) for L.
\* An array is its shape and its content; a batched array's content is the
\* sequence of its entries along axis 0.
NpArray(img) ==
  [shape |-> IF img.mode = "RGB" THEN <<img.size[1], img.size[2], 3>>
             ELSE <<img.size[1], img.size[2]>>,
   data |-> img.px]

\* np.expand_dims(a, axis=0)
ExpandDims0(a) == [shape |-> <<1>> \o a.shape, data |-> <<a.data>>]

\* a.repeat(n, axis=0): every entry along axis 0 repeated n times in place
Repeat0(a, n) ==
  [shape |-> <<a.shape[1] * n>> \o Tail(a.shape),
   data |-> [i \in 1..(Len(a.data) * n) |-> a.data[((i - 1) \div n) + 1]]]

\* a.reshape(*a.shape, 1): a trailing axis of length 1; each scalar v of an
\* entry becomes the one-channel pixel <<v>>
ReshapeChannel(a) ==
  [shape |-> a.shape \o <<1>>,
   data |-> [i \in 1..Len(a.data) |-> [p \in Pixels |-> <<a.data[i][p]>>]]]

\* ---------------------------------------------------------------- RNG
\* A generator state: where it started (a seed, or entropy when never
\* seeded) and how many pipeline calls have drawn from it since.
Unseeded(e) == [seeded |-> FALSE, value |-> e, draws |-> 0]
\* torch.manual_seed(s) / np.random.seed(s)
ManualSeed(s) == [seeded |-> TRUE, value |-> s, draws |-> 0]
Drawn(rng) == [rng EXCEPT !.draws = @ + 1]
EntropyStates == {Unseeded(e) : e \in 1..NumEntropy}

\* ------------------------------------------- the pipeline (library side)
\* Number of prompts of a call: a str is one prompt.
NumPrompts(args) == PyLen(args.prompt)

\* What the pipeline's result depends on: the arguments of the call and the
\* states of the two generators when it is called.
Decoded(args, torch, np, i, k) ==
  [index |-> i, step |-> k, prompt |-> args.prompt.texts[i],
   call |-> args, torch |-> torch, np |-> np]

\* return_latent_history=True was passed
WantsHistory(args) ==
  args.return_latent_history.passed /\ args.return_latent_history.v

\* TextToImageDiffusion.__call__: one entry per prompt, in prompt order; the
\* entry is the final image, or with return_latent_history the sequence of
\* the decoded snapshots, one per denoising step.
TextToImageOutput(args, torch, np) ==
  LET T == args.num_inference_steps.v IN
  [i \in 1..NumPrompts(args) |->
     IF WantsHistory(args)
     THEN [k \in 1..T |-> Decoded(args, torch, np, i, k)]
     ELSE Decoded(args, torch, np, i, T)]

\* the colour the model paints (some function of the call; one value here)
GeneratedPixel == <<128, 128, 128>>

\* InpaintDiffusion.__call__: one image per prompt, in prompt order; content is
\* generated where the mask is white, the source pixel is kept elsewhere.
InpaintOutput(args, torch, np) ==
  [i \in 1..NumPrompts(args) |->
     [index |-> i, step |-> args.num_inference_steps.v,
      prompt |-> args.prompt.texts[i],
      call |-> args, torch |-> torch, np |-> np,
      size |-> <<args.image_height.v, args.image_width.v>>,
      px |-> [p \in Pixels |->
                IF IsWhite(args.mask.v.data[i][p][1])
                THEN GeneratedPixel
                ELSE args.image.v.data[i][p]]]]

PipelineOutput(args, torch, np) ==
  IF args.pipeline = "inpaint" THEN InpaintOutput(args, torch, np)
  ELSE TextToImageOutput(args, torch, np)

\* The arguments the pipeline cannot work with: batched arguments of
\* different lengths, or an image and a mask of different height or width.
Incompatible(args) ==
  \/ /\ args.negative_prompt.passed
     /\ Len(args.negative_prompt.v) # NumPrompts(args)
  \/ /\ args.pipeline = "inpaint"
     /\ \/ args.image.v.shape[1] # NumPrompts(args)
        \/ args.mask.v.shape[1] # NumPrompts(args)
        \/ args.image.v.shape[2] # args.mask.v.shape[2]
        \/ args.image.v.shape[3] # args.mask.v.shape[3]

\* ------------------------------------------------------ stablefused.utils
\* image_grid(images, rows, cols): the images tiled row by row into a grid of
\* rows * cols cells.
ImageGrid(imgs, rows, cols) ==
  [rows |-> rows, cols |-> cols,
   cells |-> SubSeq(imgs, 1, IF Len(imgs) <= rows * cols THEN Len(imgs)
                             ELSE rows * cols)]

\* zip(*images): the k-th tuple holds the k-th element of every entry; as
\* many tuples as the shortest entry has elements.
RECURSIVE MinLen(_)
MinLen(seqs) ==
  IF Len(seqs) = 0 THEN 0
  ELSE IF Len(seqs) = 1 THEN Len(seqs[1])
  ELSE LET m == MinLen(Tail(seqs)) IN
       IF Len(seqs[1]) < m THEN Len(seqs[1]) ELSE m
\* `for imgs in images`: the transposition left out
ZipStar_NoTranspose(seqs) == seqs

ZipStar(seqs) ==
  [k \in 1..MinLen(seqs) |-> [i \in 1..Len(seqs) |-> seqs[i][k]]]

\* ------------------------------------------------------------- state
VARIABLES
  nb,                  \* the notebook being run: "t2i" or "inpaint"
  promptIn,            \* the prompt list written in the notebook's cell
  imageFile, maskFile, \* the two files on disk (inpainting)
  pc,                  \* the cell to execute next, or "done"
  waiting,             \* TRUE while the cell at pc waits for the pipeline
  err,                 \* the exception that ended the run, or "none"
  run,                 \* number of the current top-to-bottom run
  prev,                \* outputs of the earlier runs
  model,               \* the pipeline handle
  prompt, negative_prompt, num_inference_steps, num_images, seed,
  torch_rng, np_rng,   \* states of torch's and numpy's global generators
  original_image, mask, start_image, mask_image,
  images, timestep_images, path,
  inflight,            \* the pipeline calls made and not yet returned
  calls,               \* every pipeline call made in this run, in order
  returned,            \* what the pipeline returned to each of them
  shown,               \* what the run has displayed, in order
  video,               \* the video file on disk
  log                  \* the steps executed in this run, in order

inputs == <<nb, promptIn, imageFile, maskFile>>
control == <<pc, waiting, err, run, prev>>
params == <<prompt, negative_prompt, num_inference_steps, num_images, seed>>
rngs == <<torch_rng, np_rng>>
arrays == <<original_image, mask, start_image, mask_image>>
results == <<images, timestep_images, path>>
world == <<inflight, calls, returned, shown, video>>
vars == <<inputs, control, model, params, rngs, arrays, results, world, log>>

NoModel == [constructed |-> FALSE]
NoArray == [shape |-> <<>>, data |-> <<>>]
NoVideo == [exists |-> FALSE]
Unset == [kind |-> "unset", texts |-> <<>>]

\* A fresh kernel's namespace: nothing assigned yet.
FreshNamespace ==
  /\ model = NoModel
  /\ prompt = Unset /\ negative_prompt = "" /\ num_inference_steps = 0
  /\ num_images = 0 /\ seed = 0
  /\ original_image = NoFile /\ mask = NoFile
  /\ start_image = NoArray /\ mask_image = NoArray
  /\ images = <<>> /\ timestep_images = <<>> /\ path = ""

FirstCell(n) == IF n = "t2i" THEN "t2i_install" ELSE "inpaint_install"

Init ==
  /\ nb \in {"t2i", "inpaint"}
  /\ promptIn \in PromptLists
  /\ imageFile \in (IF nb = "inpaint" THEN ImageFiles ELSE {NoFile})
  /\ maskFile \in (IF nb = "inpaint" THEN ImageFiles ELSE {NoFile})
  /\ pc = FirstCell(nb) /\ waiting = FALSE /\ err = "none"
  /\ run = 1 /\ prev = <<>>
  /\ FreshNamespace
  /\ torch_rng \in EntropyStates /\ np_rng \in EntropyStates
  /\ inflight = <<>> /\ calls = <<>> /\ returned = <<>>
  /\ shown = <<>> /\ video = NoVideo
  /\ log = <<>>

\* ------------------------------------------------------ running a cell
\* a kernel that goes on after an exception
Ready_IgnoreErr(cell) == pc = cell /\ ~waiting

\* The kernel runs one cell at a time: the cell at pc starts when the kernel
\* is idle and no exception has ended the run.
Ready(cell) == pc = cell /\ ~waiting /\ err = "none"

Logged(cell, kind) == [cell |-> cell, kind |-> kind]

\* The arguments of a pipeline call; a keyword not passed is NotPassed.
NoArgs ==
  [pipeline |-> "", prompt |-> Unset,
   negative_prompt |-> NotPassed, num_inference_steps |-> NotPassed,
   guidance_scale |-> NotPassed, image |-> NotPassed, mask |-> NotPassed,
   start_step |-> NotPassed, image_height |-> NotPassed,
   image_width |-> NotPassed, return_latent_history |-> NotPassed]

\* a call that is not waited for
Invoke_NoWait(cell, args) ==
  /\ inflight' = Append(inflight, args)
  /\ calls' = Append(calls, args)
  /\ waiting' = FALSE
  /\ log' = Append(log, Logged(cell, "call"))
  /\ UNCHANGED <<pc, err, run, prev>>

\* model(...): the call is handed to the pipeline and the cell waits for it.
Invoke(cell, args) ==
  /\ inflight' = Append(inflight, args)
  /\ calls' = Append(calls, args)
  /\ waiting' = TRUE
  /\ log' = Append(log, Logged(cell, "call"))
  /\ UNCHANGED <<pc, err, run, prev>>

\* The pipeline returns to the waiting cell: the result of the call, drawn
\* from the generators as they are now.
Returned(cell) ==
  /\ pc = cell /\ waiting /\ err = "none"
  /\ inflight # <<>>
  /\ ~Incompatible(Head(inflight))

Result == PipelineOutput(Head(inflight), torch_rng, np_rng)

\* The pipeline raises: incompatible arguments, or out of memory on the
\* accelerator.  Nothing catches it: the cell ends and so does the run.
PipelineRaise ==
  /\ waiting /\ err = "none" /\ inflight # <<>>
  /\ err' = IF Incompatible(Head(inflight)) THEN "ValueError"
            ELSE "OutOfMemoryError"
  /\ inflight' = Tail(inflight)
  /\ waiting' = FALSE
  /\ log' = Append(log, Logged(pc, "raise"))
  /\ UNCHANGED <<inputs, pc, run, prev, model, params, rngs, arrays, results,
                 calls, returned, shown, video>>

\* ------------------------------------------ the text-to-image notebook
\* !pip install stablefused ipython
T2I_Install ==
  /\ Ready("t2i_install")
  /\ pc' = "t2i_import"
  /\ log' = Append(log, Logged("t2i_install", "setup"))
  /\ UNCHANGED <<inputs, waiting, err, run, prev, model, params, rngs, arrays,
                 results, world>>

T2I_Import ==
  /\ Ready("t2i_import")
  /\ pc' = "t2i_construct"
  /\ log' = Append(log, Logged("t2i_import", "setup"))
  /\ UNCHANGED <<inputs, waiting, err, run, prev, model, params, rngs, arrays,
                 results, world>>

T2I_Construct ==
  /\ Ready("t2i_construct")
  /\ model' = [constructed |-> TRUE, cls |-> "TextToImageDiffusion",
               model_id |-> T2IModelId, torch_dtype |-> "default",
               attention_slicing |-> FALSE, vae_slicing |-> FALSE,
               vae_tiling |-> FALSE]
  /\ pc' = "t2i_params"
  /\ log' = Append(log, Logged("t2i_construct", "construct"))
  /\ UNCHANGED <<inputs, waiting, err, run, prev, params, rngs, arrays,
                 results, world>>

\* the parameter cell with the seed part commented out
T2I_Params_NoSeed ==
  /\ Ready("t2i_params")
  /\ prompt' = SinglePrompt
  /\ negative_prompt' = NegativePrompt
  /\ num_inference_steps' = T2ISteps
  /\ seed' = T2ISeed
  /\ pc' = "t2i_call_single"
  /\ log' = Append(log, Logged("t2i_params", "params"))
  /\ UNCHANGED <<inputs, waiting, err, run, prev, model, num_images, rngs,
                 arrays, results, world>>

\* the parameter cell without np.random.seed(seed)
T2I_Params_TorchOnly ==
  /\ Ready("t2i_params")
  /\ prompt' = SinglePrompt
  /\ negative_prompt' = NegativePrompt
  /\ num_inference_steps' = T2ISteps
  /\ seed' = T2ISeed
  /\ torch_rng' = ManualSeed(seed')
  /\ pc' = "t2i_call_single"
  /\ log' = Append(log, Logged("t2i_params", "params"))
  /\ UNCHANGED <<inputs, waiting, err, run, prev, model, num_images, np_rng,
                 arrays, results, world>>

T2I_Params ==
  /\ Ready("t2i_params")
  /\ prompt' = SinglePrompt
  /\ negative_prompt' = NegativePrompt
  /\ num_inference_steps' = T2ISteps
  /\ seed' = T2ISeed
  /\ torch_rng' = ManualSeed(seed')
  /\ np_rng' = ManualSeed(seed')
  /\ pc' = "t2i_call_single"
  /\ log' = Append(log, Logged("t2i_params", "params"))
  /\ UNCHANGED <<inputs, waiting, err, run, prev, model, num_images, arrays,
                 results, world>>

\* model(prompt=prompt, num_inference_steps=num_inference_steps)[0]
T2I_SingleArgs ==
  [NoArgs EXCEPT !.pipeline = "t2i", !.prompt = prompt,
                 !.num_inference_steps = Arg(num_inference_steps)]

T2I_CallSingle ==
  /\ Ready("t2i_call_single")
  /\ Invoke("t2i_call_single", T2I_SingleArgs)
  /\ UNCHANGED <<inputs, model, params, rngs, arrays, results, returned,
                 shown, video>>

\* ...[0]: the first entry of the result is the cell's value, displayed
T2I_ReceiveSingle ==
  /\ Returned("t2i_call_single")
  /\ returned' = Append(returned, Result)
  /\ shown' = Append(shown, Result[1])
  /\ torch_rng' = Drawn(torch_rng) /\ np_rng' = Drawn(np_rng)
  /\ inflight' = Tail(inflight) /\ waiting' = FALSE
  /\ pc' = "t2i_prompts"
  /\ log' = log \o <<Logged("t2i_call_single", "receive"),
                     Logged("t2i_call_single", "display")>>
  /\ UNCHANGED <<inputs, err, run, prev, model, params, arrays, results,
                 calls, video>>

\* The single-prompt cell left out of the run: the notebook goes on with the
\* next cell (the batched part does not use the cell's value).
T2I_SkipSingle ==
  /\ Ready("t2i_call_single")
  /\ pc' = "t2i_prompts"
  /\ log' = Append(log, Logged("t2i_call_single", "skipped"))
  /\ UNCHANGED <<inputs, waiting, err, run, prev, model, params, rngs, arrays,
                 results, world>>

\* prompt = [ ... ]
T2I_Prompts ==
  /\ Ready("t2i_prompts")
  /\ prompt' = promptIn
  /\ pc' = "t2i_enable"
  /\ log' = Append(log, Logged("t2i_prompts", "params"))
  /\ UNCHANGED <<inputs, waiting, err, run, prev, model, negative_prompt,
                 num_inference_steps, num_images, seed, rngs, arrays,
                 results, world>>

\* enable_tiling() left out
T2I_Enable_NoTiling ==
  /\ Ready("t2i_enable")
  /\ model' = [model EXCEPT !.attention_slicing = TRUE, !.vae_slicing = TRUE]
  /\ pc' = "t2i_call_batched"
  /\ log' = Append(log, Logged("t2i_enable", "configure"))
  /\ UNCHANGED <<inputs, waiting, err, run, prev, params, rngs, arrays,
                 results, world>>

T2I_Enable ==
  /\ Ready("t2i_enable")
  /\ model' = [model EXCEPT !.attention_slicing = TRUE,
                            !.vae_slicing = TRUE, !.vae_tiling = TRUE]
  /\ pc' = "t2i_call_batched"
  /\ log' = Append(log, Logged("t2i_enable", "configure"))
  /\ UNCHANGED <<inputs, waiting, err, run, prev, params, rngs, arrays,
                 results, world>>

\* the batched call without return_latent_history
T2I_BatchedArgs_NoHistory ==
  [NoArgs EXCEPT !.pipeline = "t2i", !.prompt = prompt,
                 !.negative_prompt =
                     Arg(ListTimes(negative_prompt, PyLen(prompt))),
                 !.num_inference_steps = Arg(num_inference_steps),
                 !.guidance_scale = Arg(GuidanceScale)]

T2I_BatchedArgs ==
  [NoArgs EXCEPT !.pipeline = "t2i", !.prompt = prompt,
                 !.negative_prompt =
                     Arg(ListTimes(negative_prompt, PyLen(prompt))),
                 !.num_inference_steps = Arg(num_inference_steps),
                 !.guidance_scale = Arg(GuidanceScale),
                 !.return_latent_history = Arg(TRUE)]

T2I_CallBatched ==
  /\ Ready("t2i_call_batched")
  /\ Invoke("t2i_call_batched", T2I_BatchedArgs)
  /\ UNCHANGED <<inputs, model, params, rngs, arrays, results, returned,
                 shown, video>>

\* the batched result handed straight to the video cell, the grid cell skipped
T2I_ReceiveBatched_SkipGrid ==
  /\ Returned("t2i_call_batched")
  /\ images' = Result
  /\ returned' = Append(returned, Result)
  /\ torch_rng' = Drawn(torch_rng) /\ np_rng' = Drawn(np_rng)
  /\ inflight' = Tail(inflight) /\ waiting' = FALSE
  /\ pc' = "t2i_video"
  /\ log' = Append(log, Logged("t2i_call_batched", "receive"))
  /\ UNCHANGED <<inputs, err, run, prev, model, params, arrays,
                 timestep_images, path, calls, shown, video>>

\* images = model(...)
T2I_ReceiveBatched ==
  /\ Returned("t2i_call_batched")
  /\ images' = Result
  /\ returned' = Append(returned, Result)
  /\ torch_rng' = Drawn(torch_rng) /\ np_rng' = Drawn(np_rng)
  /\ inflight' = Tail(inflight) /\ waiting' = FALSE
  /\ pc' = "t2i_grid"
  /\ log' = Append(log, Logged("t2i_call_batched", "receive"))
  /\ UNCHANGED <<inputs, err, run, prev, model, params, arrays,
                 timestep_images, path, calls, shown, video>>

\* cols=len(prompt) // 2
T2I_GridCols == FloorDiv2(PyLen(prompt))

\* timestep_images = []; for imgs in zip(*images):
\*     timestep_images.append(image_grid(imgs, rows=2, cols=len(prompt) // 2))
\* When the images of a step outnumber the cells, image_grid either raises
\* in the first iteration or tiles the images that have a cell.
T2I_Grid ==
  /\ Ready("t2i_grid")
  /\ LET steps == ZipStar(images)
         fits == \A k \in 1..Len(steps) :
                    Len(steps[k]) <= GridRows * T2I_GridCols
     IN \/ /\ timestep_images' =
                [k \in 1..Len(steps) |->
                   ImageGrid(steps[k], GridRows, T2I_GridCols)]
           /\ pc' = "t2i_video"
           /\ log' = Append(log, Logged("t2i_grid", "post"))
           /\ UNCHANGED err
        \/ /\ ~fits
           /\ timestep_images' = <<>>
           /\ err' = "ValueError"
           /\ log' = Append(log, Logged("t2i_grid", "raise"))
           /\ UNCHANGED pc
  /\ UNCHANGED <<inputs, waiting, run, prev, model, params, rngs, arrays,
                 images, path, world>>

\* the video written to another path than the one kept in `path`
T2I_Video_OtherPath ==
  /\ Ready("t2i_video")
  /\ path' = VideoPath
  /\ video' = [exists |-> TRUE, path |-> "video.mp4",
               frames |-> timestep_images, fps |-> VideoFps]
  /\ pc' = "t2i_display"
  /\ log' = Append(log, Logged("t2i_video", "post"))
  /\ UNCHANGED <<inputs, waiting, err, run, prev, model, params, rngs, arrays,
                 images, timestep_images, inflight, calls, returned, shown>>

\* the video cell run over and over: the run never gets past it
T2I_Video_NoAdvance ==
  /\ Ready("t2i_video")
  /\ path' = VideoPath
  /\ video' = [exists |-> TRUE, path |-> path', frames |-> timestep_images,
               fps |-> VideoFps]
  /\ UNCHANGED <<inputs, control, model, params, rngs, arrays,
                 images, timestep_images, inflight, calls, returned, shown,
                 log>>

\* path = "text_to_image_diffusion.mp4"; pil_to_video(timestep_images, path, fps=5)
T2I_Video ==
  /\ Ready("t2i_video")
  /\ path' = VideoPath
  /\ video' = [exists |-> TRUE, path |-> path', frames |-> timestep_images,
               fps |-> VideoFps]
  /\ pc' = "t2i_display"
  /\ log' = Append(log, Logged("t2i_video", "post"))
  /\ UNCHANGED <<inputs, waiting, err, run, prev, model, params, rngs, arrays,
                 images, timestep_images, inflight, calls, returned, shown>>

\* display(Video(path, embed=True)): the file at path is read and shown
T2I_Display ==
  /\ Ready("t2i_display")
  /\ IF video.exists /\ video.path = path
     THEN /\ shown' = Append(shown, video)
          /\ pc' = "done"
          /\ log' = Append(log, Logged("t2i_display", "display"))
          /\ UNCHANGED err
     ELSE /\ err' = "FileNotFoundError"
          /\ log' = Append(log, Logged("t2i_display", "raise"))
          /\ UNCHANGED <<shown, pc>>
  /\ UNCHANGED <<inputs, waiting, run, prev, model, params, rngs, arrays,
                 results, inflight, calls, returned, video>>

\* ---------------------------------------------- the inpainting notebook
Inpaint_Install ==
  /\ Ready("inpaint_install")
  /\ pc' = "inpaint_import"
  /\ log' = Append(log, Logged("inpaint_install", "setup"))
  /\ UNCHANGED <<inputs, waiting, err, run, prev, model, params, rngs, arrays,
                 results, world>>

Inpaint_Import ==
  /\ Ready("inpaint_import")
  /\ pc' = "inpaint_construct"
  /\ log' = Append(log, Logged("inpaint_import", "setup"))
  /\ UNCHANGED <<inputs, waiting, err, run, prev, model, params, rngs, arrays,
                 results, world>>

\* model = InpaintDiffusion(model_id=model_id, torch_dtype=torch.float16)
\* model.enable_attention_slicing(); .enable_slicing(); .enable_tiling()
Inpaint_Construct ==
  /\ Ready("inpaint_construct")
  /\ model' = [constructed |-> TRUE, cls |-> "InpaintDiffusion",
               model_id |-> InpaintModelId, torch_dtype |-> "float16",
               attention_slicing |-> TRUE, vae_slicing |-> TRUE,
               vae_tiling |-> TRUE]
  /\ pc' = "inpaint_params"
  /\ log' = Append(log, Logged("inpaint_construct", "construct"))
  /\ UNCHANGED <<inputs, waiting, err, run, prev, params, rngs, arrays,
                 results, world>>

\* the parameter cell with the seed part commented out
Inpaint_Params_NoSeed ==
  /\ Ready("inpaint_params")
  /\ prompt' = promptIn
  /\ negative_prompt' = NegativePrompt
  /\ num_images' = PyLen(prompt')
  /\ seed' = InpaintSeed
  /\ pc' = "inpaint_load"
  /\ log' = Append(log, Logged("inpaint_params", "params"))
  /\ UNCHANGED <<inputs, waiting, err, run, prev, model, num_inference_steps,
                 rngs, arrays, results, world>>

Inpaint_Params ==
  /\ Ready("inpaint_params")
  /\ prompt' = promptIn
  /\ negative_prompt' = NegativePrompt
  /\ num_images' = PyLen(prompt')
  /\ seed' = InpaintSeed
  /\ torch_rng' = ManualSeed(seed')
  /\ np_rng' = ManualSeed(seed')
  /\ pc' = "inpaint_load"
  /\ log' = Append(log, Logged("inpaint_params", "params"))
  /\ UNCHANGED <<inputs, waiting, err, run, prev, model, num_inference_steps,
                 arrays, results, world>>

\* the image batching without convert("RGB")
BatchImage_NoConvert(img, n) == Repeat0(ExpandDims0(NpArray(img)), n)

\* np.expand_dims(np.array(original_image.convert("RGB")), axis=0)
\*   .repeat(num_images, axis=0)
BatchImage(img, n) == Repeat0(ExpandDims0(NpArray(ConvertRGB(img))), n)

\* the mask batching with the repeat left out
BatchMask_NoRepeat(img, n) ==
  ReshapeChannel(ExpandDims0(NpArray(ConvertL(img))))

\* the same of mask.convert("L"), then .reshape(*mask_image.shape, 1)
BatchMask(img, n) ==
  ReshapeChannel(Repeat0(ExpandDims0(NpArray(ConvertL(img))), n))

\* Image.open of the two files, the batching, and the grid of the two
\* images, which is the cell's value.  Image.open raises when a file is
\* missing; what was assigned before stays assigned.
Inpaint_Load ==
  /\ Ready("inpaint_load")
  /\ IF ~imageFile.exists
     THEN /\ err' = "FileNotFoundError"
          /\ log' = Append(log, Logged("inpaint_load", "raise"))
          /\ UNCHANGED <<pc, arrays, shown>>
     ELSE IF ~maskFile.exists
     THEN /\ original_image' = imageFile
          /\ err' = "FileNotFoundError"
          /\ log' = Append(log, Logged("inpaint_load", "raise"))
          /\ UNCHANGED <<pc, mask, start_image, mask_image, shown>>
     ELSE /\ original_image' = imageFile
          /\ mask' = maskFile
          /\ start_image' = BatchImage(original_image', num_images)
          /\ mask_image' = BatchMask(mask', num_images)
          /\ shown' = shown \o <<[text |-> "Original and mask image:"],
                                 ImageGrid(<<original_image', mask'>>, 1, 2)>>
          /\ pc' = "inpaint_call"
          /\ log' = log \o <<Logged("inpaint_load", "params"),
                             Logged("inpaint_load", "preview")>>
          /\ UNCHANGED err
  /\ UNCHANGED <<inputs, waiting, run, prev, model, params, rngs, results,
                 inflight, calls, returned, video>>

\* the call without guidance_scale
Inpaint_Args_NoGuidance ==
  [NoArgs EXCEPT !.pipeline = "inpaint", !.prompt = prompt,
                 !.negative_prompt = Arg(ListTimes(negative_prompt, num_images)),
                 !.image = Arg(start_image),
                 !.mask = Arg(mask_image),
                 !.num_inference_steps = Arg(InpaintSteps),
                 !.start_step = Arg(InpaintStartStep),
                 !.image_height = Arg(InpaintHeight),
                 !.image_width = Arg(InpaintWidth)]

\* the call starting at the last step: start_step=20
Inpaint_Args_StartAtEnd ==
  [NoArgs EXCEPT !.pipeline = "inpaint", !.prompt = prompt,
                 !.negative_prompt = Arg(ListTimes(negative_prompt, num_images)),
                 !.image = Arg(start_image),
                 !.mask = Arg(mask_image),
                 !.num_inference_steps = Arg(InpaintSteps),
                 !.start_step = Arg(InpaintSteps),
                 !.image_height = Arg(InpaintHeight),
                 !.image_width = Arg(InpaintWidth),
                 !.guidance_scale = Arg(GuidanceScale)]

\* the call with the mask built from the source image instead of the mask
Inpaint_Args_MaskFromImage ==
  [NoArgs EXCEPT !.pipeline = "inpaint", !.prompt = prompt,
                 !.negative_prompt = Arg(ListTimes(negative_prompt, num_images)),
                 !.image = Arg(start_image),
                 !.mask = Arg(BatchMask(original_image, num_images)),
                 !.num_inference_steps = Arg(InpaintSteps),
                 !.start_step = Arg(InpaintStartStep),
                 !.image_height = Arg(InpaintHeight),
                 !.image_width = Arg(InpaintWidth),
                 !.guidance_scale = Arg(GuidanceScale)]

Inpaint_Args ==
  [NoArgs EXCEPT !.pipeline = "inpaint", !.prompt = prompt,
                 !.negative_prompt = Arg(ListTimes(negative_prompt, num_images)),
                 !.image = Arg(start_image),
                 !.mask = Arg(mask_image),
                 !.num_inference_steps = Arg(InpaintSteps),
                 !.start_step = Arg(InpaintStartStep),
                 !.image_height = Arg(InpaintHeight),
                 !.image_width = Arg(InpaintWidth),
                 !.guidance_scale = Arg(GuidanceScale)]

Inpaint_Call ==
  /\ Ready("inpaint_call")
  /\ Invoke("inpaint_call", Inpaint_Args)
  /\ UNCHANGED <<inputs, model, params, rngs, arrays, results, returned,
                 shown, video>>

\* images = model(...)
Inpaint_Receive ==
  /\ Returned("inpaint_call")
  /\ images' = Result
  /\ returned' = Append(returned, Result)
  /\ torch_rng' = Drawn(torch_rng) /\ np_rng' = Drawn(np_rng)
  /\ inflight' = Tail(inflight) /\ waiting' = FALSE
  /\ pc' = "inpaint_show"
  /\ log' = Append(log, Logged("inpaint_call", "receive"))
  /\ UNCHANGED <<inputs, err, run, prev, model, params, arrays,
                 timestep_images, path, calls, shown, video>>

\* cols=math.ceil(num_images / 2)
Inpaint_GridCols == MathCeil(TrueDiv2(num_images))

\* the display cell with the first image left out of the grid
Inpaint_Show_DropFirst ==
  /\ Ready("inpaint_show")
  /\ shown' = shown
       \o [i \in 1..PyLen(prompt) |-> [text |-> <<i, prompt.texts[i]>>]]
       \o <<ImageGrid(Tail(images), GridRows, Inpaint_GridCols)>>
  /\ pc' = "done"
  /\ log' = log \o <<Logged("inpaint_show", "post"),
                     Logged("inpaint_show", "display")>>
  /\ UNCHANGED <<inputs, waiting, err, run, prev, model, params, rngs, arrays,
                 results, inflight, calls, returned, video>>

\* for i, p in enumerate(prompt): print(f"{i+1}.\t{p}")
\* image_grid(images, rows=2, cols=math.ceil(num_images / 2))
Inpaint_Show ==
  /\ Ready("inpaint_show")
  /\ shown' = shown
       \o [i \in 1..PyLen(prompt) |-> [text |-> <<i, prompt.texts[i]>>]]
       \o <<ImageGrid(images, GridRows, Inpaint_GridCols)>>
  /\ pc' = "done"
  /\ log' = log \o <<Logged("inpaint_show", "post"),
                     Logged("inpaint_show", "display")>>
  /\ UNCHANGED <<inputs, waiting, err, run, prev, model, params, rngs, arrays,
                 results, inflight, calls, returned, video>>

\* ------------------------------------------------------- a second run
\* The finished notebook is run top to bottom again, unchanged: either in
\* the same kernel (the namespace and the generators are as the last run
\* left them) or after a restart (nothing assigned, generators unseeded).
\* The files on disk stay.  What the finished run produced is kept in prev.
Rerun ==
  /\ pc = "done" /\ err = "none" /\ run < MaxRuns
  /\ prev' = Append(prev, [images |-> images, shown |-> shown, calls |-> calls])
  /\ run' = run + 1
  /\ pc' = FirstCell(nb)
  /\ calls' = <<>> /\ returned' = <<>> /\ shown' = <<>> /\ log' = <<>>
  /\ \/ UNCHANGED <<model, params, rngs, arrays, results>>
     \/ /\ model' = NoModel
        /\ prompt' = Unset /\ negative_prompt' = ""
        /\ num_inference_steps' = 0 /\ num_images' = 0 /\ seed' = 0
        /\ original_image' = NoFile /\ mask' = NoFile
        /\ start_image' = NoArray /\ mask_image' = NoArray
        /\ images' = <<>> /\ timestep_images' = <<>> /\ path' = ""
        /\ torch_rng' \in EntropyStates /\ np_rng' \in EntropyStates
  /\ UNCHANGED <<inputs, waiting, err, inflight, video>>

Next ==
  \/ T2I_Install \/ T2I_Import \/ T2I_Construct \/ T2I_Params
  \/ T2I_CallSingle \/ T2I_ReceiveSingle \/ T2I_SkipSingle
  \/ T2I_Prompts \/ T2I_Enable
  \/ T2I_CallBatched \/ T2I_ReceiveBatched \/ T2I_Grid \/ T2I_Video
  \/ T2I_Display
  \/ Inpaint_Install \/ Inpaint_Import \/ Inpaint_Construct \/ Inpaint_Params
  \/ Inpaint_Load \/ Inpaint_Call \/ Inpaint_Receive \/ Inpaint_Show
  \/ PipelineRaise
  \/ Rerun

Spec == Init /\ [][Next]_vars

\* "Run all": the kernel goes on to the next cell as long as there is one, and
\* a call handed to the pipeline comes back, returning or raising.
FairSpec == Spec /\ WF_vars(Next)

\* ==================================================== the properties
\* A batched call: the prompt argument is a list.
Batched(args) == args.prompt.kind = "list"

\* C1: in every batched pipeline call of either notebook, whatever the number
\* n >= 1 of prompts, the negative-prompt list has length n and, in the
\* inpainting notebook, start_image and mask_image have n entries along
\* their leading axis.
C1_BatchedLengthsMatch ==
  \A j \in 1..Len(calls) :
    LET c == calls[j]
        n == PyLen(c.prompt)
    IN Batched(c) =>
         /\ n >= 1
         /\ c.negative_prompt.passed /\ Len(c.negative_prompt.v) = n
         /\ c.pipeline = "inpaint" =>
               /\ c.image.passed /\ c.mask.passed
               /\ c.image.v.shape[1] = n /\ Len(c.image.v.data) = n
               /\ c.mask.v.shape[1] = n /\ Len(c.mask.v.data) = n

\* an inpainting call with three prompts has been made
C1_Witness ==
  \E j \in 1..Len(calls) :
    /\ Batched(calls[j]) /\ calls[j].pipeline = "inpaint"
    /\ PyLen(calls[j].prompt) = 3

\* C2: a second top-to-bottom run of the inpainting notebook, with the same
\* seed, prompts, negative prompt, image and mask, ends with the same output
\* images as the run before it, whatever state the generators started in.
C2_SameOutputEveryRun ==
  (nb = "inpaint" /\ pc = "done" /\ run >= 2) =>
     images = prev[run - 1].images

\* a second inpainting run has finished with at least two output images
C2_Witness ==
  /\ nb = "inpaint" /\ pc = "done" /\ run = 2
  /\ Len(images) >= 2 /\ Len(prev[1].images) >= 2
\* The kinds of step of the specification's flow, in its order; a step of no
\* such kind (install, import, enable_*, the preview of the source image and
\* mask, a raise) has rank 0.
Rank(kind) ==
  CASE kind = "construct" -> 1
    [] kind = "params" -> 2
    [] kind = "call" -> 3
    [] kind = "receive" -> 4
    [] kind = "post" -> 5
    [] kind = "display" -> 6
    [] OTHER -> 0

Before(j, cell, kind) == \E i \in 1..(j - 1) : log[i] = Logged(cell, kind)
KindBefore(j, kind) == \E i \in 1..(j - 1) : log[i].kind = kind

\* C3 as stated: the steps of a run occur in the order construct, set
\* parameters, call, receive, post-process, display; no step of a later kind
\* precedes a step of an earlier kind.
C3_Original ==
  \A i, j \in 1..Len(log) :
    (i < j /\ Rank(log[i].kind) > 0 /\ Rank(log[j].kind) > 0) =>
       Rank(log[i].kind) <= Rank(log[j].kind)

\* C3 amended: the order holds along each pipeline call, not across the run.
\* The handle is constructed before any other step of the flow; the cell that
\* sets the seed has run before every call; the output of a call is received
\* right after the call; a grid or video of pipeline output is built only
\* after that output was received, and shown only after it was built.
C3_OrderPerCall ==
  \A j \in 1..Len(log) :
    LET cell == log[j].cell
        kind == log[j].kind
    IN /\ (Rank(kind) > 1) => KindBefore(j, "construct")
       /\ (kind = "call") =>
             \/ Before(j, "t2i_params", "params")
             \/ Before(j, "inpaint_params", "params")
       /\ (kind = "receive") => (j > 1 /\ log[j - 1] = Logged(cell, "call"))
       /\ (kind = "post" /\ cell \in {"t2i_grid", "t2i_video"}) =>
             Before(j, "t2i_call_batched", "receive")
       /\ (kind = "post" /\ cell = "t2i_video") => Before(j, "t2i_grid", "post")
       /\ (kind = "post" /\ cell = "inpaint_show") =>
             Before(j, "inpaint_call", "receive")
       /\ (kind = "display" /\ cell = "t2i_call_single") =>
             log[j - 1] = Logged(cell, "receive")
       /\ (kind = "display" /\ cell = "t2i_display") =>
             Before(j, "t2i_video", "post")
       /\ (kind = "display" /\ cell = "inpaint_show") =>
             log[j - 1] = Logged(cell, "post")

\* a finished text-to-image run in which a display came before a later call
C3_Witness ==
  /\ nb = "t2i" /\ pc = "done"
  /\ \E i, j \in 1..Len(log) :
       i < j /\ log[i].kind = "display" /\ log[j].kind = "call"

\* The prompt an entry of a result belongs to, and its place in the result.
EntryOf(c, e) == IF WantsHistory(c) THEN e[1] ELSE e

\* C4: every pipeline call returns exactly one entry per prompt, in prompt
\* order: the single-string call returns one image, which [0] takes and
\* displays; a call with a list of n prompts returns n entries; and the n
\* images of the inpainting call are the images handed to image_grid.
C4_OneEntryPerPrompt ==
  /\ Len(returned) <= Len(calls)
  /\ \A j \in 1..Len(returned) :
       LET c == calls[j]
           r == returned[j]
       IN /\ Len(r) = NumPrompts(c)
          /\ \A i \in 1..Len(r) :
                /\ EntryOf(c, r[i]).index = i
                /\ EntryOf(c, r[i]).prompt = c.prompt.texts[i]
          /\ (c.prompt.kind = "str") => (Len(r) = 1 /\ shown[1] = r[1])
  /\ (nb = "inpaint" /\ pc = "done") =>
       /\ Len(images) = PyLen(prompt)
       /\ shown[Len(shown)].cells = images

\* the inpainting grid of three prompts' images has been displayed
C4_Witness ==
  /\ nb = "inpaint" /\ pc = "done" /\ PyLen(prompt) = 3
  /\ Len(returned) = 1 /\ Len(shown[Len(shown)].cells) = 3

\* C5: the batched text-to-image call passes return_latent_history=True and
\* gets, for each prompt, the snapshots of the denoising process, one per
\* denoising step in step order; the calls that do not pass the flag (the
\* inpainting call, the single-prompt call) get only the final image of each
\* prompt.
C5_HistoryOnlyWhenAsked ==
  \A j \in 1..Len(returned) :
    LET c == calls[j]
        r == returned[j]
        T == c.num_inference_steps.v
    IN IF c.pipeline = "t2i" /\ Batched(c)
       THEN /\ WantsHistory(c)
            /\ \A i \in 1..Len(r) :
                  /\ Len(r[i]) = T
                  /\ \A k \in 1..T : r[i][k].step = k /\ r[i][k].index = i
       ELSE /\ ~c.return_latent_history.passed
            /\ \A i \in 1..Len(r) : r[i].step = T

\* the batched call has returned the histories of at least two prompts
C5_Witness ==
  \E j \in 1..Len(returned) :
    /\ WantsHistory(calls[j]) /\ Len(returned[j]) >= 2
    /\ Len(returned[j][2]) = T2ISteps

\* C6: in every output image of the inpainting call (of the size of the
\* source image, so that pixel positions correspond), a pixel where the mask
\* file is black equals the pixel of the source image file; a pixel that
\* differs from the source lies where the mask is white, and there the
\* content is generated.
C6_UnmaskedKept ==
  nb = "inpaint" =>
    \A i \in 1..Len(images) : \A p \in Pixels :
      LET m == ConvertL(maskFile).px[p]
          src == ConvertRGB(imageFile).px[p]
      IN images[i].size = imageFile.size =>
         /\ IsBlack(m) => images[i].px[p] = src
         /\ (images[i].px[p] # src) => IsWhite(m)
         /\ IsWhite(m) => images[i].px[p] = GeneratedPixel

\* output images exist for a mask with a black and a white pixel, and one
\* pixel of the output differs from the source
C6_Witness ==
  /\ nb = "inpaint" /\ Len(images) >= 2
  /\ imageFile.size = <<InpaintHeight, InpaintWidth>>
  /\ images[2].size = imageFile.size
  /\ \E p, q \in Pixels :
       /\ IsBlack(ConvertL(maskFile).px[p])
       /\ IsWhite(ConvertL(maskFile).px[q])
       /\ images[2].px[q] # ConvertRGB(imageFile).px[q]

\* C7 as stated: for every non-empty prompt list the grid of a denoising
\* step (rows=2, cols=len(prompt) // 2) has exactly as many cells as there
\* are prompts, and holds every prompt's image.
C7_Original ==
  (nb = "t2i" /\ prompt.kind = "list") =>
    /\ GridRows * T2I_GridCols = PyLen(prompt)
    /\ \A k \in 1..Len(timestep_images) :
         Len(timestep_images[k].cells) = PyLen(prompt)

\* C7 amended: the grid has 2 * (n // 2) cells: n when the number n of
\* prompts is even, and then every grid built holds all n images; n - 1 when
\* n is odd (none for one prompt), one image short.  For four prompts the
\* grid is 2x2.
C7_GridCells ==
  (nb = "t2i" /\ prompt.kind = "list") =>
    LET n == PyLen(prompt)
        cells == GridRows * T2I_GridCols
    IN /\ (n % 2 = 0) => cells = n
       /\ (n % 2 = 1) => cells = n - 1
       /\ (n = 4) => (GridRows = 2 /\ T2I_GridCols = 2)
       /\ \A k \in 1..Len(timestep_images) :
            /\ timestep_images[k].rows = GridRows
            /\ timestep_images[k].cols = T2I_GridCols
            /\ (n % 2 = 0) => Len(timestep_images[k].cells) = n

\* the run of the four-prompt list has built its 2x2 grids, one per step
C7_Witness ==
  /\ nb = "t2i" /\ pc = "done" /\ PyLen(prompt) = 4
  /\ Len(timestep_images) = T2ISteps
  /\ Len(timestep_images[1].cells) = 4

\* C8: in the inpainting notebook, for every number n >= 1 of prompts, the
\* grid of rows=2, cols=ceil(n / 2) has at least n cells and at most n + 1,
\* and the grid displayed holds all n output images.
C8_GridHoldsAll ==
  (nb = "inpaint" /\ num_images >= 1) =>
    LET cells == GridRows * Inpaint_GridCols
    IN /\ cells >= num_images
       /\ cells <= num_images + 1
       /\ (pc = "done") =>
            LET g == shown[Len(shown)]
            IN /\ g.rows = GridRows /\ g.cols = Inpaint_GridCols
               /\ Len(g.cells) = num_images

\* three output images displayed in a grid of four cells
C8_Witness ==
  /\ nb = "inpaint" /\ pc = "done" /\ num_images = 3
  /\ Len(shown[Len(shown)].cells) = 3
  /\ GridRows * Inpaint_GridCols = 4

\* C9: at most one pipeline call is in flight; the kernel waits exactly while
\* one is; nothing is started after a call until the call has returned or
\* raised to the cell that made it.
C9_OneCallAtATime ==
  /\ Len(inflight) <= 1
  /\ waiting <=> (inflight # <<>>)
  /\ (inflight # <<>>) => log[Len(log)] = Logged(pc, "call")
  /\ \A j \in 1..(Len(log) - 1) :
       (log[j].kind = "call") =>
          /\ log[j + 1].cell = log[j].cell
          /\ log[j + 1].kind \in {"receive", "raise"}

\* the batched text-to-image call is in flight, the first call has returned
C9_Witness ==
  /\ pc = "t2i_call_batched" /\ waiting
  /\ Len(inflight) = 1 /\ Len(calls) = 2 /\ Len(returned) = 1

\* No step is executed twice in a run.
NoStepTwice == \A i, j \in 1..Len(log) : (i < j) => log[i] # log[j]

\* C10: once a step has failed, the run has ended: the exception stays as it
\* was raised, the failing step is not run again, and no step at all is
\* taken from then on; the failing cell is the last one in the log.
C10_FailureEndsRun ==
  /\ [](err # "none" =>
          /\ ~waiting /\ inflight = <<>> /\ pc # "done"
          /\ log[Len(log)] = Logged(pc, "raise"))
  /\ []NoStepTwice
  /\ [][err = "none"]_vars

\* the inpainting call ran out of memory: no images, nothing shown after it
C10_Witness ==
  /\ err = "OutOfMemoryError" /\ pc = "inpaint_call"
  /\ Len(calls) = 1 /\ images = <<>>

\* The lines the print loop of the inpainting notebook has written.
PrintedLines ==
  {j \in 1..Len(shown) : "text" \in DOMAIN shown[j] /\ j > 2}

\* C11: a run in which no call raises goes on until its final display step
\* and ends there (at every moment the run has raised or ended, or will have
\* later); the grid loop makes one iteration per latent snapshot and the
\* print loop one per prompt.
C11_RunTerminates ==
  /\ [](pc = "done" =>
          /\ err = "none" /\ ~waiting
          /\ log[Len(log)] \in {Logged("t2i_display", "display"),
                                 Logged("inpaint_show", "display")}
          /\ (nb = "t2i") =>
                /\ Len(timestep_images) = T2ISteps
                /\ \A i \in 1..Len(images) :
                      Len(timestep_images) <= Len(images[i])
          /\ (nb = "inpaint") => Cardinality(PrintedLines) = PyLen(prompt))
  /\ []<>(pc = "done" \/ err # "none")

\* a text-to-image run has ended in its display step, one grid per snapshot
C11_Witness ==
  /\ nb = "t2i" /\ pc = "done" /\ err = "none"
  /\ Len(timestep_images) = T2ISteps
  /\ log[Len(log)] = Logged("t2i_display", "display")

\* The step (cell, kind) has been taken in the present run.
InLog(cell, kind) == \E j \in 1..Len(log) : log[j] = Logged(cell, kind)

\* C12 as stated: every pipeline call is given the negative prompt, the step
\* count and the guidance scale next to its prompt.
C12_Original ==
  \A j \in 1..Len(calls) :
     /\ calls[j].negative_prompt.passed
     /\ calls[j].num_inference_steps.passed
     /\ calls[j].guidance_scale.passed

\* C12: every call is given its prompt and the step count; a batched call is
\* also given one negative prompt per prompt and the guidance scale 10.0; the
\* single-prompt call of the text-to-image notebook is given neither a
\* negative prompt nor a guidance scale.
C12_ParamsPassed ==
  \A j \in 1..Len(calls) :
     LET c == calls[j] IN
     /\ c.num_inference_steps.passed
     /\ c.num_inference_steps.v =
          (IF nb = "t2i" THEN num_inference_steps ELSE InpaintSteps)
     /\ IF Batched(c)
        THEN /\ c.prompt = prompt
             /\ c.negative_prompt.passed
             /\ Len(c.negative_prompt.v) = PyLen(prompt)
             /\ \A i \in 1..Len(c.negative_prompt.v) :
                   c.negative_prompt.v[i] = negative_prompt
             /\ c.guidance_scale.passed
             /\ c.guidance_scale.v = GuidanceScale
        ELSE /\ c.prompt = SinglePrompt
             /\ ~c.negative_prompt.passed
             /\ ~c.guidance_scale.passed

\* both calls of a text-to-image run have been made, the first without and
\* the second with a negative prompt and a guidance scale
C12_Witness ==
  /\ nb = "t2i" /\ Len(calls) = 2
  /\ ~calls[1].negative_prompt.passed /\ ~calls[1].guidance_scale.passed
  /\ calls[2].negative_prompt.passed /\ calls[2].guidance_scale.passed

\* attention slicing, VAE slicing and VAE tiling are all on
AllEnabled ==
  /\ model.constructed
  /\ model.attention_slicing /\ model.vae_slicing /\ model.vae_tiling

\* the run has taken the step that calls the three enable_* methods
EnabledInRun ==
  InLog("t2i_enable", "configure") \/ InLog("inpaint_construct", "construct")

\* C13: the three memory optimisations are enabled on the handle before every
\* batched call is made, and from the step that enables them they stay
\* enabled for the rest of the run.
C13_EnabledBeforeBatched ==
  /\ EnabledInRun => AllEnabled
  /\ \A j \in 1..Len(log) :
        (log[j] \in {Logged("t2i_call_batched", "call"),
                     Logged("inpaint_call", "call")}) =>
           \/ Before(j, "t2i_enable", "configure")
           \/ Before(j, "inpaint_construct", "construct")

\* the batched call of a text-to-image run is with the pipeline, the handle
\* having all three optimisations on
C13_Witness ==
  /\ nb = "t2i" /\ pc = "t2i_call_batched" /\ waiting
  /\ Batched(Head(inflight)) /\ AllEnabled

\* the batched call of the present text-to-image run has returned
BatchedReceived == nb = "t2i" /\ InLog("t2i_call_batched", "receive")

\* C14 as stated: the batched images of a run are those of the run before,
\* whether or not the single-prompt call was made in either.
C14_Original ==
  (BatchedReceived /\ run >= 2) => images = prev[run - 1].images

\* C14: two runs that both make the single-prompt call, or both leave it out,
\* give the same batched images; the batched call draws from the generators
\* as the single-prompt call has left them.
C14_SameBatchedSameCalls ==
  (BatchedReceived /\ run >= 2 /\ Len(calls) = Len(prev[run - 1].calls)) =>
     images = prev[run - 1].images

\* the batched call has returned in a second run that made the single-prompt
\* call as the first run did
C14_Witness ==
  /\ BatchedReceived /\ run = 2
  /\ Len(calls) = 2 /\ Len(prev[1].calls) = 2
  /\ Len(images) >= 2 /\ images = prev[1].images

\* The steps of the present run that seed the generators.
SeedSteps ==
  {j \in 1..Len(log) : log[j] \in {Logged("t2i_params", "params"),
                                   Logged("inpaint_params", "params")}}

\* C15: once a run has made a pipeline call, both generators are seeded, with
\* the value of `seed`; the run has seeded them once, before its first call,
\* and each call drew from the generators as the calls before it left them.
C15_SeededOnceBeforeCalls ==
  /\ Cardinality(SeedSteps) <= 1
  /\ (Len(calls) >= 1) =>
        /\ Cardinality(SeedSteps) = 1
        /\ \A j \in 1..Len(log) :
              (log[j].kind = "call") => \E i \in SeedSteps : i < j
        /\ torch_rng.seeded /\ np_rng.seeded
        /\ torch_rng.value = seed /\ np_rng.value = seed
        /\ seed = (IF nb = "t2i" THEN T2ISeed ELSE InpaintSeed)
        /\ torch_rng.draws = Len(returned) /\ np_rng.draws = Len(returned)
        /\ \A j \in 1..Len(returned) : \A i \in 1..Len(returned[j]) :
              LET e == EntryOf(calls[j], returned[j][i]) IN
              /\ e.torch = [ManualSeed(seed) EXCEPT !.draws = j - 1]
              /\ e.np = [ManualSeed(seed) EXCEPT !.draws = j - 1]

\* both calls of a text-to-image run have returned
C15_Witness ==
  /\ nb = "t2i" /\ Len(returned) = 2
  /\ torch_rng = [ManualSeed(T2ISeed) EXCEPT !.draws = 2]
  /\ np_rng = [ManualSeed(T2ISeed) EXCEPT !.draws = 2]

C17_Original ==
  \A j \in 1..Len(calls) :
     LET c == calls[j] IN
     (c.pipeline = "inpaint") =>
        /\ c.image.v.shape[2] = c.image_height.v
        /\ c.image.v.shape[3] = c.image_width.v
        /\ c.mask.v.shape[2] = c.image_height.v
        /\ c.mask.v.shape[3] = c.image_width.v

\* C17: the call asks for 512 x 512; the image and the mask it is given have
\* the height and width of the files they were loaded from, which are those
\* asked for, and those of each other, when both files are 512 x 512.
C17_SizesFromFiles ==
  \A j \in 1..Len(calls) :
     LET c == calls[j] IN
     (c.pipeline = "inpaint") =>
        /\ c.image_height.v = InpaintHeight
        /\ c.image_width.v = InpaintWidth
        /\ <<c.image.v.shape[2], c.image.v.shape[3]>> = imageFile.size
        /\ <<c.mask.v.shape[2], c.mask.v.shape[3]>> = maskFile.size
        /\ (/\ imageFile.size = <<InpaintHeight, InpaintWidth>>
            /\ maskFile.size = <<InpaintHeight, InpaintWidth>>) =>
              /\ c.image.v.shape[2] = c.image_height.v
              /\ c.image.v.shape[3] = c.image_width.v
              /\ c.mask.v.shape[2] = c.image_height.v
              /\ c.mask.v.shape[3] = c.image_width.v

\* the inpainting call has been made with a 256 x 512 image and a 512 x 512
\* mask
C17_Witness ==
  /\ nb = "inpaint" /\ Len(calls) = 1
  /\ calls[1].image.v.shape[2] = 256 /\ calls[1].mask.v.shape[2] = 512
  /\ calls[1].image_height.v = InpaintHeight

C19_VideoInOrder ==
  /\ (nb = "t2i" /\ InLog("t2i_video", "post")) =>
        /\ video.exists /\ path = VideoPath /\ video.path = path
        /\ video.frames = timestep_images
        /\ \A k \in 1..Len(video.frames) :
              \A i \in 1..Len(video.frames[k].cells) :
                 video.frames[k].cells[i].step = k
  /\ \A j \in 1..Len(log) :
        (log[j] = Logged("t2i_display", "display")) =>
           /\ Before(j, "t2i_video", "post")
           /\ shown[Len(shown)] = video
           /\ shown[Len(shown)].path = path

\* the video of a four-prompt run has been displayed
C19_Witness ==
  /\ nb = "t2i" /\ InLog("t2i_display", "display")
  /\ Len(video.frames) = T2ISteps /\ Len(video.frames[1].cells) = 4
  /\ shown[Len(shown)].path = VideoPath

\* C20: the inpainting call starts at a step of its own schedule:
\* 0 <= start_step < num_inference_steps.
C20_StartStepInRange ==
  \A j \in 1..Len(calls) :
     LET c == calls[j] IN
     (c.pipeline = "inpaint") =>
        /\ c.start_step.passed /\ c.num_inference_steps.passed
        /\ 0 <= c.start_step.v
        /\ c.start_step.v < c.num_inference_steps.v

\* the inpainting call has been made, with steps left to run after start_step
C20_Witness ==
  /\ nb = "inpaint" /\ Len(calls) = 1 /\ calls[1].pipeline = "inpaint"
  /\ calls[1].num_inference_steps.v - calls[1].start_step.v = 15

=============================================================================
